---- MODULE Spec2Model ----
(***************************************************************************)
(* Model of the two store back ends of the repository:                     *)
(*   src/server.js          products, cart and orders kept in              *)
(*                          data/products.json, data/cart.json and         *)
(*                          data/orders.json (readData / writeData)        *)
(*   src/unnamed/part_000   products kept in products/products.json        *)
(*                          (loadProducts / saveProducts)                  *)
(*                                                                         *)
(* Conventions.  A JavaScript value that may be undefined is a sequence of *)
(* length 0 (undefined; JSON drops the key) or 1 (the value).  A number    *)
(* that may be NaN is the same: <<>> is NaN, which JSON.stringify writes   *)
(* as null.  Decimal strings are sequences of digits 0..9.  Money is kept  *)
(* in cents; every price is a whole number of dollars, so 8% of a subtotal *)
(* is a whole number of cents and no rounding takes place.                 *)
(***************************************************************************)
EXTENDS Integers, Sequences, FiniteSets, TLC

VARIABLES products, cart, orders, products2, now, res, req, inflight

vars == <<products, cart, orders, products2, now, res, req, inflight>>

(***************************************************************************)
(* Bounds of the model.                                                    *)
(***************************************************************************)
MaxClock == 2
MaxProducts == 2
MaxCart == 2
MaxQty == 2
MaxOrders == 1
MaxCardLen == 5
MaxMedia == 3

(***************************************************************************)
(* Program constants.                                                      *)
(***************************************************************************)
ShippingCents == 599
TaxPercent == 8
LastDigits == 4

(***************************************************************************)
(* JavaScript helpers.                                                     *)
(***************************************************************************)
Undefined == <<>>
NaN == <<>>

Some(v) == <<v>>

\* JS truthiness of an optional string: undefined and "" are falsy.
TruthyStr(o) == o # Undefined /\ o[1] # ""

\* JS truthiness of an optional decimal string (a sequence of digits).
TruthyDigits(o) == o # Undefined /\ Len(o[1]) > 0

RECURSIVE DigitsValue(_)
DigitsValue(ds) ==
  IF Len(ds) = 0 THEN 0
  ELSE 10 * DigitsValue(SubSeq(ds, 1, Len(ds) - 1)) + ds[Len(ds)]

\* parseInt of a route parameter made of digits.
ParseInt(ds) == DigitsValue(ds)

\* parseFloat of an optional decimal string of dollars, in cents; NaN when
\* the string is undefined or empty.
ParseFloat(o) ==
  IF o = Undefined \/ Len(o[1]) = 0 THEN NaN ELSE Some(100 * DigitsValue(o[1]))

\* A price used in arithmetic: the stored null (a NaN written by
\* JSON.stringify) multiplies as 0.
Num(p) == IF p = NaN THEN 0 ELSE p[1]

\* Array.prototype.findIndex, given the indices whose element passes the
\* test: the first of them, 0 when there is none (JavaScript's -1).
FindIndex(hits) ==
  IF hits = {} THEN 0 ELSE CHOOSE i \in hits : \A j \in hits : i <= j

\* Array.prototype.splice(index, 1).
Splice(arr, i) == SubSeq(arr, 1, i - 1) \o SubSeq(arr, i + 1, Len(arr))

\* slice(0, n) in place of slice(-n): the first n characters.
SliceFirst(s, n) == IF Len(s) <= n THEN s ELSE SubSeq(s, 1, n)

\* String.prototype.slice(-n): the last n characters, the whole string when
\* it has n characters or fewer.
SliceLast(s, n) ==
  IF Len(s) <= n THEN s ELSE SubSeq(s, Len(s) - n + 1, Len(s))

\* String.prototype.trim on a sequence of characters.
RECURSIVE TrimLeft(_)
TrimLeft(s) ==
  IF Len(s) > 0 /\ s[1] = " " THEN TrimLeft(Tail(s)) ELSE s

RECURSIVE TrimRight(_)
TrimRight(s) ==
  IF Len(s) > 0 /\ s[Len(s)] = " "
  THEN TrimRight(SubSeq(s, 1, Len(s) - 1)) ELSE s

Trim(s) == TrimRight(TrimLeft(s))

\* req.body.sizes is a comma separated string, modelled by its pieces
\* between the commas; "" is the single empty piece.
TruthySizes(o) == o # Undefined /\ o[1] # << <<>> >>

SplitTrim(pieces) == [i \in 1..Len(pieces) |-> Trim(pieces[i])]

DefaultSizes == << <<"S">>, <<"M">>, <<"L">> >>

(***************************************************************************)
(* Record Store of src/server.js.                                          *)
(***************************************************************************)
\* readData: the parsed content of the file.
readData(file) == file

\* writeData: fs.writeFileSync either replaces the file (ok) or throws and
\* leaves it; writeData catches the error and returns false.
writeData(file, data, ok) == IF ok THEN data ELSE file

(***************************************************************************)
(* Media Manager: the MediaRef of an uploaded file.                        *)
(***************************************************************************)
FileType(file) == IF file.mimetype[1] = "image" THEN "image" ELSE "video"

Url(filename) == <<"/uploads/", filename>>

Placeholder == <<"/img/placeholder.jpg">>

MediaRef(file) ==
  [type |-> FileType(file), url |-> Url(file.filename), name |-> file.filename]

MediaRefs(files) == [i \in 1..Len(files) |-> MediaRef(files[i])]

\* The answer of a route: its status and body, with the route that gave it
\* and whether a write of a collection failed while it ran.
Response(op, status, failed, out) ==
  [op |-> op, status |-> status, failed |-> failed, out |-> out]

(***************************************************************************)
(* Product routes of src/server.js.                                        *)
(***************************************************************************)
\* Date.now(): the clock never runs backwards and two calls may see the same
\* millisecond.
Clock(t) == t \in now..(now + 1) /\ t <= MaxClock

newProduct(body, files, t) ==
  LET mediaFiles == MediaRefs(files) IN
  [id |-> t,
   name |-> body.name,
   price |-> ParseFloat(body.price),
   category |-> body.category,
   image |-> IF Len(mediaFiles) > 0 THEN mediaFiles[1].url ELSE Placeholder,
   media |-> mediaFiles,
   sizes |-> IF TruthySizes(body.sizes) THEN SplitTrim(body.sizes[1])
             ELSE DefaultSizes,
   description |-> body.description,
   reviews |-> <<>>]

PostProduct(body, files, t, ok) ==
  /\ Len(products) < MaxProducts
  /\ Clock(t)
  /\ LET created == newProduct(body, files, t)
         pushed == Append(readData(products), created)
     IN /\ products' = writeData(products, pushed, ok)
        /\ res' = Response("postProduct", 201, ~ok, created)
  /\ now' = t
  /\ UNCHANGED <<cart, orders, products2>>

\* The product matching a route id, as products.findIndex(p => p.id === parseInt(id)).
IndexOfId(arr, idParam) ==
  FindIndex({i \in 1..Len(arr) : arr[i].id = ParseInt(idParam)})

updatedProduct(old, body, files) ==
  LET mediaFiles == old.media \o MediaRefs(files) IN
  [old EXCEPT
     !.name = IF TruthyStr(body.name) THEN body.name ELSE old.name,
     !.price = IF TruthyDigits(body.price) THEN ParseFloat(body.price)
               ELSE old.price,
     !.category = IF TruthyStr(body.category) THEN body.category
                  ELSE old.category,
     !.sizes = IF TruthySizes(body.sizes) THEN SplitTrim(body.sizes[1])
               ELSE old.sizes,
     !.description = IF TruthyStr(body.description) THEN body.description
                     ELSE old.description,
     !.image = IF Len(mediaFiles) > 0 THEN mediaFiles[1].url ELSE old.image,
     !.media = mediaFiles]

PutProduct(idParam, body, files, ok) ==
  LET read == readData(products)
      productIndex == IndexOfId(read, idParam)
  IN /\ IF productIndex = 0
        THEN /\ res' = Response("putProduct", 404, FALSE, <<>>)
             /\ UNCHANGED products
        ELSE LET updated == updatedProduct(read[productIndex], body, files) IN
             /\ products' =
                  writeData(products, [read EXCEPT ![productIndex] = updated], ok)
             /\ res' = Response("putProduct", 200, ~ok, updated)
     /\ UNCHANGED <<cart, orders, products2, now>>

\* unlinked: whether fs.unlinkSync returned for every media file of the
\* product; when it throws, the catch block answers 500 before any write.
DeleteProduct(idParam, unlinked, ok) ==
  LET read == readData(products)
      productIndex == IndexOfId(read, idParam)
  IN /\ IF productIndex = 0
        THEN /\ res' = Response("deleteProduct", 404, FALSE, <<>>)
             /\ UNCHANGED products
        ELSE IF Len(read[productIndex].media) > 0 /\ ~unlinked
        THEN /\ res' = Response("deleteProduct", 500, FALSE, <<>>)
             /\ UNCHANGED products
        ELSE /\ products' = writeData(products, Splice(read, productIndex), ok)
             /\ res' = Response("deleteProduct", 200, ~ok, <<>>)
     /\ UNCHANGED <<cart, orders, products2, now>>

(***************************************************************************)
(* Cart routes of src/server.js.                                           *)
(***************************************************************************)
\* cart.find / cart.findIndex on (productId, size).
IndexOfLine(arr, productId, size) ==
  FindIndex({i \in 1..Len(arr) :
               arr[i].productId = productId /\ arr[i].size = size})

PostCart(productId, size, ok) ==
  LET read == readData(cart)
      existingItem == IndexOfLine(read, productId, size)
      catalog == readData(products)
      product == FindIndex({i \in 1..Len(catalog) : catalog[i].id = productId})
  IN /\ IF existingItem # 0
        THEN /\ read[existingItem].quantity < MaxQty
             /\ LET added == [read EXCEPT ![existingItem].quantity = @ + 1] IN
                /\ cart' = writeData(cart, added, ok)
                /\ res' = Response("postCart", 200, ~ok, added)
        ELSE IF product = 0
        THEN /\ res' = Response("postCart", 404, FALSE, <<>>)
             /\ UNCHANGED cart
        ELSE /\ Len(read) < MaxCart
             /\ LET pushed == Append(read,
                       [productId |-> productId,
                        name |-> catalog[product].name,
                        price |-> catalog[product].price,
                        image |-> catalog[product].image,
                        size |-> size,
                        quantity |-> 1])
                IN /\ cart' = writeData(cart, pushed, ok)
                   /\ res' = Response("postCart", 200, ~ok, pushed)
     /\ UNCHANGED <<products, orders, products2, now>>

\* adjustedCart with the comparison "< 0": a line at quantity 0 stays.
adjustedCartBelowZero(read, item, productId, size, change) ==
  LET changed == [read EXCEPT ![item].quantity = @ + change] IN
  IF changed[item].quantity < 0
  THEN Splice(changed, IndexOfLine(changed, productId, size))
  ELSE changed

\* item.quantity += change, and the line is spliced out when that leaves
\* it at 0 or below.
adjustedCart(read, item, productId, size, change) ==
  LET changed == [read EXCEPT ![item].quantity = @ + change] IN
  IF changed[item].quantity <= 0
  THEN Splice(changed, IndexOfLine(changed, productId, size))
  ELSE changed

PutCart(idParam, size, change, ok) ==
  LET read == readData(cart)
      item == IndexOfLine(read, ParseInt(idParam), size)
  IN /\ IF item = 0
        THEN /\ res' = Response("putCart", 404, FALSE, <<>>)
             /\ UNCHANGED cart
        ELSE LET kept == adjustedCart(read, item, ParseInt(idParam), size, change)
             IN /\ read[item].quantity + change <= MaxQty
                /\ cart' = writeData(cart, kept, ok)
                /\ res' = Response("putCart", 200, ~ok, kept)
     /\ UNCHANGED <<products, orders, products2, now>>

DeleteCart(idParam, size, ok) ==
  LET read == readData(cart)
      index == IndexOfLine(read, ParseInt(idParam), size)
  IN /\ IF index = 0
        THEN /\ res' = Response("deleteCart", 404, FALSE, <<>>)
             /\ UNCHANGED cart
        ELSE /\ cart' = writeData(cart, Splice(read, index), ok)
             /\ res' = Response("deleteCart", 200, ~ok, Splice(read, index))
     /\ UNCHANGED <<products, orders, products2, now>>

(***************************************************************************)
(* Order routes of src/server.js.                                          *)
(***************************************************************************)
\* cart.reduce((total, item) => total + item.price * item.quantity, 0)
RECURSIVE Reduce(_)
Reduce(items) ==
  IF Len(items) = 0 THEN 0
  ELSE Reduce(SubSeq(items, 1, Len(items) - 1))
       + Num(items[Len(items)].price) * items[Len(items)].quantity

\* Shipping with the comparison ">= 0".
ShippingFromZero(subtotal) == IF subtotal >= 0 THEN ShippingCents ELSE 0

Shipping(subtotal) == IF subtotal > 0 THEN ShippingCents ELSE 0

Tax(subtotal) == (subtotal * TaxPercent) \div 100

Totals(items) ==
  LET subtotal == Reduce(items)
      shipping == Shipping(subtotal)
      tax == Tax(subtotal)
  IN [subtotal |-> subtotal, shipping |-> shipping, tax |-> tax,
      total |-> subtotal + shipping + tax]

\* The payment as stored: only the last 4 characters of the card number.
Redact(payment) ==
  [cardName |-> payment.cardName,
   cardNumber |-> SliceLast(payment.cardNumber, LastDigits),
   expiry |-> payment.expiry]

newOrder(items, customer, payment, t) ==
  [id |-> <<"ORD-", t>>,
   date |-> t,
   customer |-> customer,
   items |-> items,
   payment |-> Redact(payment),
   totals |-> Totals(items),
   status |-> "Processing"]

\* The comparison cart === [], which no array satisfies.
EmptyCartNever(items) == FALSE /\ Len(items) = 0

\* cart.length === 0
EmptyCart(items) == Len(items) = 0

\* payment is req.body.payment, undefined when the body has none: reading
\* its cardName then throws and the catch block answers 500.
PostOrder(customer, payment, t, okOrders, okCart) ==
  LET read == readData(orders)
      items == readData(cart)
  IN /\ IF EmptyCart(items)
        THEN /\ res' = Response("postOrder", 400, FALSE, <<>>)
             /\ UNCHANGED <<orders, cart, now>>
        ELSE IF payment = Undefined
        THEN /\ Clock(t)
             /\ now' = t
             /\ res' = Response("postOrder", 500, FALSE, <<>>)
             /\ UNCHANGED <<orders, cart>>
        ELSE /\ Len(read) < MaxOrders
             /\ Clock(t)
             /\ now' = t
             /\ LET created == newOrder(items, customer, payment[1], t) IN
                /\ orders' = writeData(orders, Append(read, created), okOrders)
                /\ cart' = writeData(cart, <<>>, okCart)
                /\ res' = Response("postOrder", 201, ~okOrders \/ ~okCart, created)
     /\ UNCHANGED <<products, products2>>

\* The self-destruct route: three writes, then every uploaded file is
\* unlinked; unlinked is whether readdirSync and unlinkSync returned.
SelfDestruct(okProducts, okCart, okOrders, unlinked) ==
  /\ products' = writeData(products, <<>>, okProducts)
  /\ cart' = writeData(cart, <<>>, okCart)
  /\ orders' = writeData(orders, <<>>, okOrders)
  /\ res' = Response("selfDestruct", IF unlinked THEN 200 ELSE 500,
                     ~okProducts \/ ~okCart \/ ~okOrders, <<>>)
  /\ UNCHANGED <<products2, now>>

(***************************************************************************)
(* Product routes of src/unnamed/part_000.                                 *)
(***************************************************************************)
loadProducts(file) == file

\* saveProducts: fs.writeFileSync is not caught here; when it throws the
\* file is left as it was and the route's catch block answers 500.
saveProducts(file, data, ok) == IF ok THEN data ELSE file

MediaRef2(file) == [type |-> FileType(file), url |-> Url(file.filename)]

MediaRefs2(files) == [i \in 1..Len(files) |-> MediaRef2(files[i])]

sizesArray(sizes) ==
  IF TruthySizes(sizes) THEN SplitTrim(sizes[1]) ELSE DefaultSizes

newProduct2(body, files, t) ==
  LET mediaFiles == MediaRefs2(files) IN
  [id |-> t,
   name |-> body.name,
   price |-> ParseFloat(body.price),
   category |-> body.category,
   image |-> IF Len(mediaFiles) > 0 THEN mediaFiles[1].url ELSE <<"">>,
   media |-> mediaFiles,
   sizes |-> sizesArray(body.sizes),
   description |-> body.description,
   reviews |-> <<>>]

PostProduct2(body, files, t, ok) ==
  /\ Len(products2) < MaxProducts
  /\ Clock(t)
  /\ LET created == newProduct2(body, files, t)
         pushed == Append(loadProducts(products2), created)
     IN /\ products2' = saveProducts(products2, pushed, ok)
        /\ res' = IF ok THEN Response("postProduct2", 201, FALSE, created)
                  ELSE Response("postProduct2", 500, TRUE, <<>>)
  /\ now' = t
  /\ UNCHANGED <<products, cart, orders>>

updatedProduct2(old, body, files) ==
  LET mediaFiles == MediaRefs2(files) IN
  [old EXCEPT
     !.name = body.name,
     !.price = ParseFloat(body.price),
     !.category = body.category,
     !.sizes = sizesArray(body.sizes),
     !.description = body.description,
     !.image = IF Len(mediaFiles) > 0 THEN mediaFiles[1].url ELSE old.image,
     !.media = IF Len(mediaFiles) > 0 THEN mediaFiles ELSE old.media]

PutProduct2(idParam, body, files, ok) ==
  LET read == loadProducts(products2)
      productIndex == IndexOfId(read, idParam)
  IN /\ IF productIndex = 0
        THEN /\ res' = Response("putProduct2", 404, FALSE, <<>>)
             /\ UNCHANGED products2
        ELSE LET updated == updatedProduct2(read[productIndex], body, files) IN
             /\ products2' =
                  saveProducts(products2, [read EXCEPT ![productIndex] = updated], ok)
             /\ res' = IF ok THEN Response("putProduct2", 200, FALSE, updated)
                       ELSE Response("putProduct2", 500, TRUE, <<>>)
     /\ UNCHANGED <<products, cart, orders, now>>

DeleteProduct2(idParam, ok) ==
  LET read == loadProducts(products2)
      productIndex == IndexOfId(read, idParam)
  IN /\ IF productIndex = 0
        THEN /\ res' = Response("deleteProduct2", 404, FALSE, <<>>)
             /\ UNCHANGED products2
        ELSE /\ products2' = saveProducts(products2, Splice(read, productIndex), ok)
             /\ res' = Response("deleteProduct2", IF ok THEN 200 ELSE 500, ~ok, <<>>)
     /\ UNCHANGED <<products, cart, orders, now>>

(***************************************************************************)
(* Two create requests in flight.  multer's upload.array middleware parses *)
(* the multipart body asynchronously, so another request may be served     *)
(* while a request is "uploading"; the route callback itself (readFileSync *)
(* ... writeFileSync ... res.json) has no await and runs to completion.    *)
(***************************************************************************)
Requests == {1, 2}

Idle == [pc |-> "idle", server |-> "", body |-> <<>>, files |-> <<>>,
         status |-> 0, out |-> <<>>]

\* A POST /api/products request reaches one of the two servers.
Arrive(r, server, body, files) ==
  /\ inflight[r].pc = "idle"
  /\ inflight' = [inflight EXCEPT
                    ![r] = [pc |-> "uploading", server |-> server, body |-> body,
                            files |-> files, status |-> 0, out |-> <<>>]]
  /\ UNCHANGED <<products, cart, orders, products2, now, res, req>>

\* The upload is complete and the route callback of src/server.js runs.
Handle(r, t, ok) ==
  /\ inflight[r].pc = "uploading"
  /\ inflight[r].server = "server.js"
  /\ PostProduct(inflight[r].body, inflight[r].files, t, ok)
  /\ inflight' = [inflight EXCEPT ![r].pc = "done",
                                  ![r].status = res'.status,
                                  ![r].out = res'.out]

\* The same for src/unnamed/part_000.
Handle2(r, t, ok) ==
  /\ inflight[r].pc = "uploading"
  /\ inflight[r].server = "part_000"
  /\ PostProduct2(inflight[r].body, inflight[r].files, t, ok)
  /\ inflight' = [inflight EXCEPT ![r].pc = "done",
                                  ![r].status = res'.status,
                                  ![r].out = res'.out]

(***************************************************************************)
(* Inputs.                                                                 *)
(***************************************************************************)
\* Route parameters naming an id: the decimal strings of 1..MaxClock.
IdParams == {<<d>> : d \in 1..MaxClock}

Flags == BOOLEAN

SizeLabels == {"M", "L"}

Body(name, price, category, sizes, description) ==
  [name |-> name, price |-> price, category |-> category, sizes |-> sizes,
   description |-> description]

\* Product forms with a name and a price in whole dollars.
PricedBodies ==
  {Body(Some("shirt"), p, Some("tops"), Undefined, Undefined) :
     p \in {Some(<<5>>), Some(<<1, 0>>), Some(<<0>>)}}

PlainBodies == {Body(Some("shirt"), Some(<<5>>), Some("tops"), Undefined, Undefined)}

\* Forms of an update that gives a new name.
RenameBodies == {Body(Some("coat"), Undefined, Undefined, Undefined, Undefined)}

\* Forms of a create: every field given, or the name alone.
CreateBodies ==
  {Body(Some("shirt"), Some(<<5>>), Some("tops"), Some(<< <<" ", "X", "L">> >>),
        Some("soft")),
   Body(Some("shirt"), Undefined, Undefined, Undefined, Undefined)}

\* Forms of an update: each of name and price given, empty or absent; the
\* category and the description given or absent.
UpdateBodies ==
  {Body(n, p, c, Undefined, c) :
     n \in {Undefined, Some(""), Some("coat")},
     p \in {Undefined, Some(<<>>), Some(<<7>>)},
     c \in {Undefined, Some("warm")}}

Uploads ==
  {<<>>, <<[mimetype |-> <<"video", "mp4">>, filename |-> "b.mp4"]>>}

\* The files of an update: none, one image, or an image and a video.
NewUploads ==
  {<<>>,
   <<[mimetype |-> <<"image", "png">>, filename |-> "c.png"]>>,
   <<[mimetype |-> <<"image", "png">>, filename |-> "c.png"],
     [mimetype |-> <<"video", "mp4">>, filename |-> "d.mp4"]>>}

\* Card numbers of every length up to MaxCardLen: "4", "41", "411", ...
RECURSIVE Card(_)
Card(n) == IF n = 0 THEN <<>> ELSE IF n = 1 THEN <<4>> ELSE Append(Card(n - 1), 1)

Payment(n) == Some([cardName |-> "A", cardNumber |-> Card(n), expiry |-> "12/30"])

Payments == {Undefined} \cup {Payment(n) : n \in 0..MaxCardLen}

Changes == (0 - MaxQty)..MaxQty

(***************************************************************************)
(* Specifications.                                                         *)
(***************************************************************************)
Init ==
  /\ products = <<>>
  /\ cart = <<>>
  /\ orders = <<>>
  /\ products2 = <<>>
  /\ now = 1
  /\ res = Response("none", 0, FALSE, <<>>)
  /\ req = <<>>
  /\ inflight = [r \in Requests |-> Idle]

\* req is the request of the last route that ran, kept where log is TRUE.
Log(log, request) == IF log THEN req' = request ELSE UNCHANGED req

\* The cart ledger: the catalog is filled and the cart is edited.
CartLedger(log) ==
  \/ /\ \E body \in PlainBodies, t \in 1..MaxClock, ok \in Flags :
          /\ PostProduct(body, <<>>, t, ok)
          /\ Log(log, [body |-> body])
     /\ UNCHANGED inflight
  \/ /\ \E productId \in 1..MaxClock, size \in SizeLabels, ok \in Flags :
          /\ PostCart(productId, size, ok)
          /\ Log(log, [productId |-> productId, size |-> size])
     /\ UNCHANGED inflight
  \/ /\ \E idParam \in IdParams, size \in SizeLabels, change \in Changes,
          ok \in Flags :
          /\ PutCart(idParam, size, change, ok)
          /\ Log(log, [productId |-> idParam, size |-> size, change |-> change])
     /\ UNCHANGED inflight
  \/ /\ \E idParam \in IdParams, size \in SizeLabels, ok \in Flags :
          /\ DeleteCart(idParam, size, ok)
          /\ Log(log, [productId |-> idParam, size |-> size])
     /\ UNCHANGED inflight

Next == CartLedger(FALSE)

Spec == Init /\ [][Next]_vars

NextCart == CartLedger(TRUE)

SpecCart == Init /\ [][NextCart]_vars

\* Every mutating route of src/server.js.
NextStore ==
  \/ /\ \E body \in PlainBodies, t \in 1..MaxClock, ok \in Flags :
          PostProduct(body, <<>>, t, ok)
     /\ UNCHANGED <<inflight, req>>
  \/ /\ \E idParam \in IdParams, body \in RenameBodies, ok \in Flags :
          PutProduct(idParam, body, <<>>, ok)
     /\ UNCHANGED <<inflight, req>>
  \/ /\ \E idParam \in IdParams, unlinked \in Flags, ok \in Flags :
          DeleteProduct(idParam, unlinked, ok)
     /\ UNCHANGED <<inflight, req>>
  \/ /\ \E productId \in 1..MaxClock, ok \in Flags :
          PostCart(productId, "M", ok)
     /\ UNCHANGED <<inflight, req>>
  \/ /\ \E idParam \in IdParams, change \in {-1, 1}, ok \in Flags :
          PutCart(idParam, "M", change, ok)
     /\ UNCHANGED <<inflight, req>>
  \/ /\ \E idParam \in IdParams, ok \in Flags : DeleteCart(idParam, "M", ok)
     /\ UNCHANGED <<inflight, req>>
  \/ /\ \E t \in 1..MaxClock, okOrders \in Flags, okCart \in Flags :
          PostOrder("customer", Payment(MaxCardLen), t, okOrders, okCart)
     /\ UNCHANGED <<inflight, req>>
  \/ /\ \E okProducts \in Flags, okCart \in Flags, okOrders \in Flags,
          unlinked \in Flags :
          SelfDestruct(okProducts, okCart, okOrders, unlinked)
     /\ UNCHANGED <<inflight, req>>

SpecStore == Init /\ [][NextStore]_vars

\* The order processor: priced products, a cart, orders.
NextOrder ==
  \/ /\ \E body \in PricedBodies, t \in 1..MaxClock, ok \in Flags :
          PostProduct(body, <<>>, t, ok)
     /\ req' = <<>>
     /\ UNCHANGED inflight
  \/ /\ \E productId \in 1..MaxClock, ok \in Flags :
          PostCart(productId, "M", ok)
     /\ req' = <<>>
     /\ UNCHANGED inflight
  \/ /\ \E payment \in Payments, t \in 1..MaxClock, okOrders \in Flags,
          okCart \in Flags :
          /\ PostOrder("customer", payment, t, okOrders, okCart)
          /\ req' = [customer |-> "customer", payment |-> payment]
     /\ UNCHANGED inflight

SpecOrder == Init /\ [][NextOrder]_vars

\* The catalog of src/server.js.
NextCatalog ==
  \/ /\ \E body \in CreateBodies, files \in Uploads, t \in 1..MaxClock,
          ok \in Flags :
          /\ PostProduct(body, files, t, ok)
          /\ req' = [body |-> body, files |-> files]
     /\ UNCHANGED inflight
  \/ /\ \E idParam \in IdParams, body \in UpdateBodies, ok \in Flags :
          /\ PutProduct(idParam, body, <<>>, ok)
          /\ req' = [id |-> idParam, body |-> body, files |-> <<>>]
     /\ UNCHANGED inflight
  \/ /\ \E idParam \in IdParams, unlinked \in Flags, ok \in Flags :
          /\ DeleteProduct(idParam, unlinked, ok)
          /\ req' = [id |-> idParam]
     /\ UNCHANGED inflight

SpecCatalog == Init /\ [][NextCatalog]_vars

\* The catalog of src/unnamed/part_000.
NextCatalog2 ==
  \/ /\ \E body \in CreateBodies, files \in Uploads, t \in 1..MaxClock,
          ok \in Flags :
          /\ PostProduct2(body, files, t, ok)
          /\ req' = [body |-> body, files |-> files]
     /\ UNCHANGED inflight
  \/ /\ \E idParam \in IdParams, body \in UpdateBodies, ok \in Flags :
          /\ PutProduct2(idParam, body, <<>>, ok)
          /\ req' = [id |-> idParam, body |-> body, files |-> <<>>]
     /\ UNCHANGED inflight
  \/ /\ \E idParam \in IdParams, ok \in Flags :
          /\ DeleteProduct2(idParam, ok)
          /\ req' = [id |-> idParam]
     /\ UNCHANGED inflight

SpecCatalog2 == Init /\ [][NextCatalog2]_vars

\* Uploads: products of both catalogs are created and updated with files.
\* A product holds at most MaxMedia media entries.
MediaFits(arr, files) ==
  \A i \in 1..Len(arr) : Len(arr[i].media) + Len(files) <= MaxMedia

NextMedia ==
  \/ /\ \E body \in PlainBodies, files \in Uploads, t \in 1..MaxClock,
          ok \in Flags :
          /\ PostProduct(body, files, t, ok)
          /\ req' = [body |-> body, files |-> files]
     /\ UNCHANGED inflight
  \/ /\ \E idParam \in IdParams, body \in RenameBodies, files \in NewUploads,
          ok \in Flags :
          /\ MediaFits(products, files)
          /\ PutProduct(idParam, body, files, ok)
          /\ req' = [id |-> idParam, body |-> body, files |-> files]
     /\ UNCHANGED inflight
  \/ /\ \E body \in PlainBodies, files \in Uploads, t \in 1..MaxClock,
          ok \in Flags :
          /\ PostProduct2(body, files, t, ok)
          /\ req' = [body |-> body, files |-> files]
     /\ UNCHANGED inflight
  \/ /\ \E idParam \in IdParams, body \in RenameBodies, files \in NewUploads,
          ok \in Flags :
          /\ MediaFits(products2, files)
          /\ PutProduct2(idParam, body, files, ok)
          /\ req' = [id |-> idParam, body |-> body, files |-> files]
     /\ UNCHANGED inflight

SpecMedia == Init /\ [][NextMedia]_vars

\* Two concurrent creates against an empty catalog.
NextConcurrent ==
  \/ \E r \in Requests, server \in {"server.js", "part_000"},
       body \in PlainBodies, files \in Uploads : Arrive(r, server, body, files)
  \/ /\ \E r \in Requests, t \in 1..MaxClock, ok \in Flags : Handle(r, t, ok)
     /\ UNCHANGED req
  \/ /\ \E r \in Requests, t \in 1..MaxClock, ok \in Flags : Handle2(r, t, ok)
     /\ UNCHANGED req

SpecConcurrent == Init /\ [][NextConcurrent]_vars

(***************************************************************************)
(* Claims.                                                                 *)
(***************************************************************************)
CartRoutes == {"postCart", "putCart", "deleteCart"}

Quantities(items) == {items[i].quantity : i \in 1..Len(items)}

\* C1: every CartItem stored in cart.json has quantity >= 1, and so has
\* every CartItem of the cart a cart route answers with (the cart it hands
\* to writeData): a line that adjust leaves at 0 or below is not in it.
C1_QuantityAtLeastOne ==
  /\ \A q \in Quantities(cart) : q >= 1
  /\ res.op \in CartRoutes /\ res.status = 200 =>
       \A q \in Quantities(res.out) : q >= 1

\* An adjust has found its line, brought it to 0 or below and written the
\* cart, which is now empty: the line was taken out.
C1_Witness ==
  /\ res.op = "putCart" /\ res.status = 200 /\ ~res.failed
  /\ res.out = <<>>
  /\ cart = <<>>

Keys(items) == {<<items[i].productId, items[i].size>> : i \in 1..Len(items)}

UniqueLines(items) == Cardinality(Keys(items)) = Len(items)

\* C2: the stored cart holds at most one CartItem per (productId, size),
\* and an add that answers 200 on a pair that already has a line leaves the
\* stored cart as it was but for that line's quantity, which is one higher
\* (so that two adds on an empty cart store one line of quantity 2).
C2_AddIncrementsStoredLine ==
  [][/\ UniqueLines(cart')
     /\ res'.op = "postCart" /\ res'.status = 200 =>
          LET i == IndexOfLine(cart, req'.productId, req'.size) IN
          IF i # 0
          THEN cart' = [cart EXCEPT ![i].quantity = @ + 1]
          ELSE /\ Len(cart') = Len(cart) + 1
               /\ cart'[Len(cart')].quantity = 1]_vars

\* C3: a placeOrder either appends an order holding the cart's items to
\* orders.json and empties cart.json, or changes neither file.
C3_OrderAndCartTogether ==
  [][res'.op = "postOrder" =>
       \/ /\ Len(orders') = Len(orders) + 1
          /\ SubSeq(orders', 1, Len(orders)) = orders
          /\ orders'[Len(orders')].items = cart
          /\ cart' = <<>>
       \/ /\ orders' = orders
          /\ cart' = cart]_vars

\* The card number a placeOrder request supplied.
Supplied(request) == request.payment[1].cardNumber

\* C4 as claimed: whatever the length of the card number supplied, the order
\* a placeOrder writes to orders.json holds its last 4 characters and does
\* not hold the card number as supplied.
C4_NeverFullNumber ==
  [][res'.op = "postOrder" /\ orders' # orders =>
       LET stored == orders'[Len(orders')].payment.cardNumber
           n == Supplied(req')
       IN /\ \A k \in 1..Len(stored) :
               stored[k] = n[Len(n) - Len(stored) + k]
          /\ Len(stored) <= LastDigits
          /\ stored # n]_vars

\* C4 amended: the order written holds the last 4 characters of a card
\* number longer than 4 characters, and so not the number as supplied; a
\* card number of 4 characters or fewer is written whole.
C4_LastFourOfLongNumber ==
  [][res'.op = "postOrder" /\ orders' # orders =>
       LET stored == orders'[Len(orders')].payment.cardNumber
           n == Supplied(req')
       IN IF Len(n) > LastDigits
          THEN /\ Len(stored) = LastDigits
               /\ \A k \in 1..LastDigits :
                    stored[k] = n[Len(n) - LastDigits + k]
               /\ stored # n
          ELSE stored = n]_vars

\* An order is in orders.json whose request supplied a card number of more
\* than 4 characters.
C4_Witness ==
  /\ res.op = "postOrder" /\ res.status = 201
  /\ Len(Supplied(req)) > LastDigits
  /\ Len(orders) > 0
  /\ orders[Len(orders)] = res.out

\* C5: a placeOrder on an empty cart answers 400 and leaves orders.json and
\* cart.json as they were.
C5_EmptyCartRejected ==
  [][res'.op = "postOrder" /\ cart = <<>> =>
       /\ res'.status = 400
       /\ orders' = orders
       /\ cart' = cart]_vars

\* A placeOrder has been answered 400 while orders.json and cart.json are
\* both empty.
C5_Witness ==
  /\ res.op = "postOrder" /\ res.status = 400
  /\ cart = <<>>
  /\ orders = <<>>
  /\ Len(products) > 0

Servers == {"server.js", "part_000"}

Collection(server) == IF server = "server.js" THEN products ELSE products2

\* The requests a server has answered 201.
Created(server) ==
  {r \in Requests : inflight[r].server = server /\ inflight[r].status = 201}

\* C6: once both create requests have completed, the products collection of
\* a server contains every product the server answered 201 for, and nothing
\* else.
C6_BothCreatesRetained ==
  (\A r \in Requests : inflight[r].pc = "done") =>
    \A server \in Servers :
      /\ Len(Collection(server)) = Cardinality(Created(server))
      /\ \A r \in Created(server) :
           \E i \in 1..Len(Collection(server)) :
             Collection(server)[i] = inflight[r].out

\* C7: a mutating route during which a write of a collection failed does
\* not answer with a success status; it answers 500.
C7_FailedWriteAnswers500 == res.failed => res.status >= 500

DeleteRoutes == {"deleteProduct", "deleteProduct2"}

\* C8: a product delete answered 200 and followed by a delete of the same id
\* has the second delete answered 404, and a delete takes at most one record
\* out of the collection, one whose id is the id asked for.
C8_DeleteTwiceNotFound ==
  [][/\ res.op \in DeleteRoutes /\ res.status = 200
        /\ res'.op = res.op /\ req'.id = req.id =>
          res'.status = 404
     /\ res'.op \in DeleteRoutes =>
          LET before == IF res'.op = "deleteProduct" THEN products ELSE products2
              after == IF res'.op = "deleteProduct" THEN products' ELSE products2'
          IN \/ after = before
             \/ \E i \in 1..Len(before) :
                  /\ before[i].id = ParseInt(req'.id)
                  /\ after = Splice(before, i)]_vars

UpdateRoutes == {"putProduct", "putProduct2"}

\* C10: after a product update answered 200, each of name, price, category
\* and description holds the value the request gave when the request has the
\* field and the value stored before when it has not; id and reviews are as
\* before, and so is every other product.
C10_AbsentFieldsKept ==
  [][res'.op \in UpdateRoutes /\ res'.status = 200 =>
       LET before == IF res'.op = "putProduct" THEN products ELSE products2
           after == IF res'.op = "putProduct" THEN products' ELSE products2'
           i == IndexOfId(before, req'.id)
           body == req'.body
       IN /\ Len(after) = Len(before)
          /\ \A j \in 1..Len(before) : j # i => after[j] = before[j]
          /\ after[i].name =
               IF body.name # Undefined THEN body.name ELSE before[i].name
          /\ after[i].price =
               IF body.price # Undefined THEN ParseFloat(body.price)
               ELSE before[i].price
          /\ after[i].category =
               IF body.category # Undefined THEN body.category
               ELSE before[i].category
          /\ after[i].description =
               IF body.description # Undefined THEN body.description
               ELSE before[i].description
          /\ after[i].id = before[i].id
          /\ after[i].reviews = before[i].reviews]_vars

\* The MediaRefs a route makes of uploaded files.
RefsOf(op, files) ==
  IF op = "putProduct" THEN MediaRefs(files) ELSE MediaRefs2(files)

\* C11: after a product update answered 200 whose write took effect, a
\* product that had media and was sent files holds exactly the MediaRefs of
\* those files as its media and the url of the first of them as its image;
\* a product that was sent no files has the media and the image it had.
C11_UploadsReplaceMedia ==
  [][res'.op \in UpdateRoutes /\ res'.status = 200 /\ ~res'.failed =>
       LET before == IF res'.op = "putProduct" THEN products ELSE products2
           after == IF res'.op = "putProduct" THEN products' ELSE products2'
           i == IndexOfId(before, req'.id)
           files == req'.files
           refs == RefsOf(res'.op, files)
       IN /\ Len(files) > 0 /\ Len(before[i].media) > 0 =>
               /\ after[i].media = refs
               /\ after[i].image = refs[1].url
          /\ Len(files) = 0 =>
               /\ after[i].media = before[i].media
               /\ after[i].image = before[i].image]_vars

RECURSIVE Sum(_, _)
Sum(f, S) ==
  IF S = {} THEN 0
  ELSE LET x == CHOOSE y \in S : TRUE IN f[x] + Sum(f, S \ {x})

\* The totals an order should carry, in cents.
TotalsRight(order) ==
  LET lines == order.items
      subtotal == Sum([i \in 1..Len(lines) |->
                         Num(lines[i].price) * lines[i].quantity],
                      1..Len(lines))
      totals == order.totals
  IN /\ totals.subtotal = subtotal
     /\ totals.shipping = IF subtotal > 0 THEN 599 ELSE 0
     /\ 100 * totals.tax = 8 * subtotal
     /\ totals.total = totals.subtotal + totals.shipping + totals.tax

\* The cart of the example: price 10 quantity 2, price 5 quantity 1.
ExampleItems(lines) ==
  /\ Len(lines) = 2
  /\ lines[1].price = <<1000>> /\ lines[1].quantity = 2
  /\ lines[2].price = <<500>> /\ lines[2].quantity = 1

\* C9: the order a placeOrder creates, and every order in orders.json, has
\* subtotal the sum of price times quantity over its items, shipping 5.99
\* when the subtotal is above 0 and 0 otherwise, tax 8% of the subtotal and
\* total their sum; the example cart gives 25.00, 5.99, 2.00 and 32.99.
C9_OrderTotals ==
  /\ \A k \in 1..Len(orders) : TotalsRight(orders[k])
  /\ res.op = "postOrder" /\ res.status = 201 =>
       /\ Len(res.out.items) > 0
       /\ TotalsRight(res.out)
       /\ ExampleItems(res.out.items) =>
            res.out.totals = [subtotal |-> 2500, shipping |-> 599,
                              tax |-> 200, total |-> 3299]

\* The order of the example cart has been created and is in orders.json.
C9_Witness ==
  /\ res.op = "postOrder" /\ res.status = 201
  /\ ExampleItems(res.out.items)
  /\ Len(orders) > 0
  /\ orders[Len(orders)] = res.out

====
